---- MODULE Spec2Model ----
(***************************************************************************)
(* Model of zaber_X_ADR130.Controller: the serial command/response         *)
(* exchange (_send), the per-axis and combined moving flags, the software  *)
(* position limits and the startup handshake, run against a transport and  *)
(* a two-axis stage.                                                       *)
(***************************************************************************)
EXTENDS Integers, Sequences, FiniteSets, TLC

(***************************************************************************)
(* Python floats.  Every number the controller handles (x_mm, 1e6 * x_mm,  *)
(* 1e-6 * float(p)) is an IEEE-754 binary64 value.  A value is kept as a   *)
(* sign and a magnitude, the magnitude an exact integer count of 2^-75     *)
(* written in 8 limbs of 15 bits, least significant first; a binary64      *)
(* value is one whose magnitude has at most 53 significant bits.  Every    *)
(* arithmetic operation computes the exact result and rounds it to 53 bits *)
(* round-half-to-even, as the hardware does.                               *)
(***************************************************************************)
LimbBits == 15
Base == 2^LimbBits
NLimbs == 8
FracLimbs == 5
Mantissa == 53

Zeros(n) == [i \in 1..n |-> 0]

Pad(a, n) == a \o Zeros(n - Len(a))

RECURSIVE AddC(_, _, _, _)
AddC(a, b, i, c) ==
    IF i > Len(a) THEN <<>>
    ELSE LET s == a[i] + b[i] + c
         IN  <<s % Base>> \o AddC(a, b, i + 1, s \div Base)

\* a + b, both of the same length (the sum must fit that length)
BAdd(a, b) == AddC(a, b, 1, 0)

RECURSIVE SubC(_, _, _, _)
SubC(a, b, i, c) ==
    IF i > Len(a) THEN <<>>
    ELSE LET s == a[i] - b[i] - c
         IN  IF s < 0 THEN <<s + Base>> \o SubC(a, b, i + 1, 1)
                      ELSE <<s>> \o SubC(a, b, i + 1, 0)

\* a - b for a >= b, both of the same length
BSub(a, b) == SubC(a, b, 1, 0)

RECURSIVE CmpFrom(_, _, _)
CmpFrom(a, b, i) ==
    IF i = 0 THEN 0
    ELSE IF a[i] < b[i] THEN -1
    ELSE IF a[i] > b[i] THEN 1
    ELSE CmpFrom(a, b, i - 1)

\* -1, 0, 1 as a < b, a = b, a > b (same length)
BCmp(a, b) == CmpFrom(a, b, Len(a))

RECURSIVE MulRow(_, _, _, _)
MulRow(a, d, i, c) ==
    IF i > Len(a) THEN <<c>>
    ELSE LET p == a[i] * d + c
         IN  <<p % Base>> \o MulRow(a, d, i + 1, p \div Base)

RECURSIVE MulAcc(_, _, _, _)
MulAcc(a, b, j, acc) ==
    IF j > Len(b) THEN acc
    ELSE IF b[j] = 0 THEN MulAcc(a, b, j + 1, acc)
    ELSE MulAcc(a, b, j + 1,
                BAdd(acc, Pad(Zeros(j - 1) \o MulRow(a, b[j], 1, 0), Len(acc))))

\* a * b, of length Len(a) + Len(b)
BMul(a, b) == MulAcc(a, b, 1, Zeros(Len(a) + Len(b)))

RECURSIVE TopLimb(_, _)
TopLimb(a, i) == IF i = 0 THEN 0 ELSE IF a[i] # 0 THEN i ELSE TopLimb(a, i - 1)

RECURSIVE Bits(_)
Bits(n) == IF n = 0 THEN 0 ELSE 1 + Bits(n \div 2)

BitLen(a) ==
    LET h == TopLimb(a, Len(a))
    IN  IF h = 0 THEN 0 ELSE LimbBits * (h - 1) + Bits(a[h])

BIsZero(a) == TopLimb(a, Len(a)) = 0

\* bit i of a, bit 0 the least significant
Bit(a, i) == (a[(i \div LimbBits) + 1] \div 2^(i % LimbBits)) % 2

\* no bit of a below bit s is set
LowZero(a, s) ==
    /\ \A k \in 1..(s \div LimbBits) : a[k] = 0
    /\ (s % LimbBits = 0 \/ a[(s \div LimbBits) + 1] % 2^(s % LimbBits) = 0)

\* a with the bits below bit s cleared
ClearLow(a, s) ==
    [k \in 1..Len(a) |->
        IF k <= s \div LimbBits THEN 0
        ELSE IF k = (s \div LimbBits) + 1 THEN a[k] - (a[k] % 2^(s % LimbBits))
        ELSE a[k]]

\* 2^s in n limbs
OneAt(n, s) == [k \in 1..n |-> IF k = (s \div LimbBits) + 1 THEN 2^(s % LimbBits) ELSE 0]

\* the exact magnitude a (plus, with sticky, a rest below its last bit) rounded to
\* 53 significant bits, ties to even
RoundSticky(a, sticky) ==
    LET bl == BitLen(a)
    IN  IF bl <= Mantissa THEN a
        ELSE LET s  == bl - Mantissa
                 up == /\ Bit(a, s - 1) = 1
                       /\ (~LowZero(a, s - 1) \/ sticky \/ Bit(a, s) = 1)
             IN  IF up THEN BAdd(ClearLow(a, s), OneAt(Len(a), s))
                       ELSE ClearLow(a, s)

Round53(a) == RoundSticky(a, FALSE)

Float(neg, mag) == [neg |-> neg /\ ~BIsZero(mag), mag |-> mag]

\* the float of an integer literal 0 <= n < 2^31
FromInt(n) ==
    Float(FALSE, Pad(Zeros(FracLimbs) \o <<n % Base, (n \div Base) % Base, n \div (Base * Base)>>,
                     NLimbs))

RECURSIVE HexAcc(_, _, _)
HexAcc(digits, i, acc) ==
    IF i > Len(digits) THEN acc
    ELSE HexAcc(digits, i + 1,
                BAdd(SubSeq(MulRow(acc, 16, 1, 0), 1, Len(acc)),
                     Pad(<<digits[i]>>, Len(acc))))

\* the float float.fromhex('0x1.<digits>p<p>') for 13 hex digits and p >= -23
FromHex(digits, p) ==
    LET m  == HexAcc(digits, 1, Pad(<<1>>, NLimbs))
        sh == p + 23
        w  == SubSeq(MulRow(m, 2^(sh % LimbBits), 1, 0), 1, NLimbs)
    IN  Float(FALSE, SubSeq(Zeros(sh \div LimbBits) \o w, 1, NLimbs))

FNeg(x) == Float(~x.neg, x.mag)

\* x + y in binary64
FAdd(x, y) ==
    IF x.neg = y.neg THEN Float(x.neg, Round53(BAdd(x.mag, y.mag)))
    ELSE IF BCmp(x.mag, y.mag) >= 0 THEN Float(x.neg, Round53(BSub(x.mag, y.mag)))
    ELSE Float(y.neg, Round53(BSub(y.mag, x.mag)))

\* x * y in binary64 (for results that are 0 or at least 2^-22 in magnitude)
FMul(x, y) ==
    Float(x.neg # y.neg,
          SubSeq(Round53(BMul(x.mag, y.mag)), FracLimbs + 1, FracLimbs + NLimbs))

RECURSIVE QuotDigit(_, _, _, _)
\* the largest g in lo..hi with d * g <= r, by bisection (d * lo <= r)
QuotDigit(d, r, lo, hi) ==
    IF lo = hi THEN lo
    ELSE LET g == (lo + hi + 1) \div 2
         IN  IF BCmp(MulRow(d, g, 1, 0), r) <= 0 THEN QuotDigit(d, r, g, hi)
                                                ELSE QuotDigit(d, r, lo, g - 1)

RECURSIVE DivLoop(_, _, _, _, _)
\* long division, one limb of n at a time from limb i down: <<quotient, remainder>>
DivLoop(n, d, i, q, r) ==
    IF i = 0 THEN <<q, r>>
    ELSE LET r1 == <<n[i]>> \o SubSeq(r, 1, Len(d))
             g  == QuotDigit(d, r1, 0, Base - 1)
         IN  DivLoop(n, d, i - 1, <<g>> \o q, BSub(r1, MulRow(d, g, 1, 0)))

\* x / y in binary64 (y # 0, for results that are 0 or at least 2^-21 in magnitude)
FDiv(x, y) ==
    LET n  == Zeros(FracLimbs) \o x.mag
        qr == DivLoop(n, y.mag, Len(n), <<>>, Zeros(NLimbs + 1))
    IN  Float(x.neg # y.neg, SubSeq(RoundSticky(qr[1], ~BIsZero(qr[2])), 1, NLimbs))

\* Python's round(x, 3) for x >= 0: the exact value of x rounded to a whole number
\* of thousandths, ties to even, and the float nearest to that decimal
FRound3(x) ==
    LET p    == MulRow(x.mag, 1000, 1, 0)
        frac == Pad(SubSeq(p, 1, FracLimbs), Len(p))
        int  == Pad(SubSeq(p, FracLimbs + 1, Len(p)), Len(p))
        half == OneAt(Len(p), FracLimbs * LimbBits - 1)
        c    == BCmp(frac, half)
        up   == c > 0 \/ (c = 0 /\ int[1] % 2 = 1)
        k    == IF up THEN BAdd(int, OneAt(Len(p), 0)) ELSE int
    IN  FDiv(Float(x.neg, SubSeq(Zeros(FracLimbs) \o k, 1, NLimbs)), FromInt(1000))

\* x <= y
FLe(x, y) ==
    IF x.neg /\ ~y.neg THEN TRUE
    ELSE IF ~x.neg /\ y.neg THEN FALSE
    ELSE IF x.neg THEN BCmp(x.mag, y.mag) >= 0
    ELSE BCmp(x.mag, y.mag) <= 0

(***************************************************************************)
(* Text on the wire.  A line is a sequence of symbols: the marker, each    *)
(* address character, a space, CR and LF are single characters; every      *)
(* other word of a reply ('OK', 'IDLE', '--', a number) is one symbol.  A  *)
(* number carries its binary64 value: Python's str() and float() of a      *)
(* float round-trip exactly, so the decimal text stands for the value.     *)
(***************************************************************************)
Ch(s) == [c |-> s, n |-> <<>>]
Num(v) == [c |-> "num", n |-> <<v>>]
Txt(ss) == [i \in 1..Len(ss) |-> Ch(ss[i])]
CR == Ch("CR")
LF == Ch("LF")
SP == Ch(" ")
IsSpace(s) == s.c \in {" ", "CR", "LF"}

RECURSIVE Words(_)
\* the words ws joined by single spaces
Words(ws) ==
    IF ws = <<>> THEN <<>>
    ELSE IF Len(ws) = 1 THEN <<ws[1]>>
    ELSE <<ws[1], SP>> \o Words(Tail(ws))

\* bytes.endswith(b'\r\n')
EndsWithCRLF(r) == Len(r) >= 2 /\ r[Len(r) - 1] = CR /\ r[Len(r)] = LF

RECURSIVE LStrip(_)
LStrip(s) == IF s # <<>> /\ s[1] \in {CR, LF} THEN LStrip(Tail(s)) ELSE s

RECURSIVE RStrip(_)
RStrip(s) ==
    IF s # <<>> /\ s[Len(s)] \in {CR, LF} THEN RStrip(SubSeq(s, 1, Len(s) - 1)) ELSE s

\* str.strip('\r\n'): every leading and every trailing CR or LF is removed
Strip(s) == RStrip(LStrip(s))

\* Python's s[i:j], 0-based, tolerant of a short s
Slice(s, i, j) == SubSeq(s, i + 1, IF j < Len(s) THEN j ELSE Len(s))

RECURSIVE SplitAcc(_, _, _)
SplitAcc(s, cur, acc) ==
    IF s = <<>> THEN (IF cur = <<>> THEN acc ELSE Append(acc, cur))
    ELSE IF IsSpace(s[1])
         THEN SplitAcc(Tail(s), <<>>, IF cur = <<>> THEN acc ELSE Append(acc, cur))
         ELSE SplitAcc(Tail(s), Append(cur, s[1]), acc)

\* str.split(): the maximal runs of non-blank symbols, each a sequence
Split(s) == SplitAcc(s, <<>>, <<>>)

Word(w) == <<Ch(w)>>
IsNumber(tok) == Len(tok) = 1 /\ tok[1].c = "num"

(***************************************************************************)
(* Controller._send, lines 83-94: what it makes of the line readline()     *)
(* returned.  The result is the payload handed back, or the error raised.  *)
(***************************************************************************)
response_type_to_char(response_type) ==
    CASE response_type = "reply" -> Ch("@")
      [] response_type = "info"  -> Ch("#")
      [] response_type = "alert" -> Ch("!")

Ok(payload) == [ok |-> TRUE, err |-> "", payload |-> payload]
Err(kind) == [ok |-> FALSE, err |-> kind, payload |-> <<>>]

\* _send without line 92, the check of in_waiting
DecodeNoWaiting(line, response_type, address, verbose, waiting) ==
    IF ~EndsWithCRLF(line) THEN Err("terminator")
    ELSE LET response == Strip(line)
         IN  IF response = <<>> THEN Err("IndexError")
             ELSE IF response[1] # response_type_to_char(response_type) THEN Err("character")
             ELSE IF Slice(response, 1, 3) # address THEN Err("address")
             ELSE IF verbose /\ Len(Split(response)) < 3 THEN Err("IndexError")
             ELSE Ok(Slice(response, 4, Len(response)))

\* _send with a rejected command treated as one more failed assertion
DecodeOkOnly(line, response_type, address, verbose, waiting) ==
    IF ~EndsWithCRLF(line) THEN Err("terminator")
    ELSE LET response == Strip(line)
         IN  IF response = <<>> THEN Err("IndexError")
             ELSE IF response[1] # response_type_to_char(response_type) THEN Err("character")
             ELSE IF Slice(response, 1, 3) # address THEN Err("address")
             ELSE IF Len(Split(response)) < 3 THEN Err("IndexError")
             ELSE IF Split(response)[3] # Word("OK") THEN Err("rejected")
             ELSE IF waiting # 0 THEN Err("in_waiting")
             ELSE Ok(Slice(response, 4, Len(response)))

Decode(line, response_type, address, verbose, waiting) ==
    IF ~EndsWithCRLF(line) THEN Err("terminator")
    ELSE LET response == Strip(line)
         IN  IF response = <<>> THEN Err("IndexError")
             ELSE IF response[1] # response_type_to_char(response_type) THEN Err("character")
             ELSE IF Slice(response, 1, 3) # address THEN Err("address")
             ELSE IF verbose /\ Len(Split(response)) < 3 THEN Err("IndexError")
             ELSE IF waiting # 0 THEN Err("in_waiting")
             ELSE Ok(Slice(response, 4, Len(response)))

(***************************************************************************)
(* State.                                                                  *)
(***************************************************************************)
VARIABLES
    phase,          \* "init" while __init__ runs, then "ready"; "returned" when a
                    \* call has just come back; "failed" once an exception left
    err,            \* what was raised
    verbose,        \* self.verbose
    min_mm,         \* <<self.x_min_mm, self.y_min_mm>>
    max_mm,         \* <<self.x_max_mm, self.y_max_mm>>
    maxspeed_mmps,  \* the constructor's maxspeed_mmps
    device_address, \* self.device_address
    moving,         \* self._moving
    moving_a,       \* <<self._moving_x, self._moving_y>>
    mm,             \* <<self.x_mm, self.y_mm>>
    mmps,           \* <<self.x_mmps, self.y_mmps>>
    stk,            \* the call stack, innermost frame last
    ret,            \* the value the last finished call returned
    out,            \* the last command written to the port
    unread,         \* commands written whose reply line was not read yet
    in_waiting,     \* self.port.in_waiting after the last readline
    line,           \* the line the last readline returned
    dev,            \* the stage
    call,           \* the call the client made, with the state it was made in
    trace,          \* the commands written since that call began
    await,          \* the polls of the wait loop running or last run
    menu            \* the calls the client makes in this session

ctl == <<phase, err, stk, ret>>
cfg == <<verbose, min_mm, max_mm, maxspeed_mmps>>
self == <<device_address, moving, moving_a, mm, mmps>>
port == <<out, unread, in_waiting, line, dev>>
ghost == <<call, trace, await, menu>>
vars == <<phase, err, stk, ret, verbose, min_mm, max_mm, maxspeed_mmps,
          device_address, moving, moving_a, mm, mmps,
          out, unread, in_waiting, line, dev, call, trace, await, menu>>

Zero == FromInt(0)
X == 1
Y == 2
Axes == {X, Y}

(***************************************************************************)
(* Commands.  _send writes '/' + device_address + ' ' + cmd + '\n'; cmd is *)
(* an optional axis number, a verb and an optional number.                 *)
(***************************************************************************)
Cmd(verb, a, arg) == [verb |-> verb, a |-> a, arg |-> arg]
NoCmd == Cmd("none", 0, <<>>)
Written(address, c) == [addr |-> address, verb |-> c.verb, a |-> c.a, arg |-> c.arg]
NoneWritten == Written(<<>>, NoCmd)

\* a written command as the trace keeps it, with the flag (OK, RJ) and the
\* status (IDLE, BUSY) of its reply
Sent(c) == [verb |-> c.verb, a |-> c.a, arg |-> c.arg, status |-> "unread",
            state |-> "unread"]
StatusOf(l) == IF Len(Split(l)) >= 3 THEN Split(l)[3][1].c ELSE "none"
StateOf(l) == IF Len(Split(l)) >= 4 THEN Split(l)[4][1].c ELSE "none"

(***************************************************************************)
(* The stage and the serial line: the controller's environment.  The stage *)
(* answers every command addressed to it with one line.  An axis is busy   *)
(* from an accepted move or home until it settles by itself; a stop makes  *)
(* it settle where it is.                                                  *)
(***************************************************************************)
DevAddr == Txt(<<"0", "1">>)
Digit(a) == CASE a = 0 -> "0" [] a = 1 -> "1" [] a = 2 -> "2"
BusyWord(b) == IF b THEN "BUSY" ELSE "IDLE"
DevBusy(d, a) == IF a = 0 THEN d.busy[X] \/ d.busy[Y] ELSE d.busy[a]

Reply(words) == <<Ch("@")>> \o DevAddr \o <<SP>> \o Words(words) \o <<CR, LF>>

Head4(d, a, status) == Txt(<<Digit(a), status, BusyWord(DevBusy(d, a)), d.warn>>)

\* the stage keeps a speed as a whole number of its units
DevQuantize(v) == Float(v.neg, ClearLow(v.mag, FracLimbs * LimbBits))

DeviceIds == {"50998", "30222"}

Answers(c, d) ==
    IF c.addr # <<>> /\ c.addr # DevAddr THEN {[line |-> <<>>, dev |-> d]}
    ELSE CASE c.verb = "get device.id" ->
                {[line |-> Reply(Head4(d, 0, "OK") \o <<Ch(id)>>), dev |-> d] : id \in DeviceIds}
           [] c.verb = "" ->
                {[line |-> Reply(Head4(d, c.a, "OK") \o <<Ch("0")>>), dev |-> d]}
           [] c.verb = "warnings" ->
                {[line |-> Reply(Head4(d, 0, "OK")
                                 \o (IF d.warn = "--" THEN <<Ch("00")>>
                                     ELSE <<Ch("01"), Ch(d.warn)>>)),
                  dev |-> d]}
           [] c.verb = "home" ->
                {[line |-> Reply(Txt(<<"0", "OK", "BUSY", d.warn, "0">>)),
                  dev |-> [d EXCEPT !.busy = <<TRUE, TRUE>>, !.tgt = <<Zero, Zero>>,
                                    !.warn = w]] : w \in {"--", d.warn}}
           [] c.verb = "move abs" ->
                {[line |-> Reply(Txt(<<Digit(c.a), "OK", "BUSY", d.warn, "0">>)),
                  dev |-> [d EXCEPT !.busy[c.a] = TRUE, !.tgt[c.a] = c.arg[1]]],
                 [line |-> Reply(Head4(d, c.a, "RJ") \o <<Ch("BADDATA")>>), dev |-> d]}
           [] c.verb = "stop" ->
                {[line |-> Reply(Head4(d, c.a, "OK") \o <<Ch("0")>>),
                  dev |-> [d EXCEPT !.tgt[c.a] = d.pos[c.a]]]}
           [] c.verb = "get pos" ->
                {[line |-> Reply(Head4(d, c.a, "OK")
                                 \o (IF c.a = 0 THEN <<Num(d.pos[X]), Num(d.pos[Y])>>
                                     ELSE <<Num(d.pos[c.a])>>)),
                  dev |-> d]}
           [] c.verb = "set maxspeed" ->
                {[line |-> Reply(Head4(d, c.a, "OK") \o <<Ch("0")>>),
                  dev |-> [d EXCEPT !.speed[c.a] = DevQuantize(c.arg[1])]]}
           [] c.verb = "get maxspeed" ->
                {[line |-> Reply(Head4(d, 0, "OK") \o <<Num(d.speed[X]), Num(d.speed[Y])>>),
                  dev |-> d]}

(***************************************************************************)
(* What the serial line can do to a reply: nothing, lose its end, lose it  *)
(* whole (readline times out), start it with a stray CR, damage the marker *)
(* or the address, cut it after the axis number, or deliver more bytes     *)
(* than the line (in_waiting > 0).                                         *)
(***************************************************************************)
Faults == {"none", "no terminator", "timeout", "stray CR", "marker", "address",
           "short", "more bytes"}

Garble(l, f) ==
    IF l = <<>> THEN l
    ELSE CASE f = "no terminator" -> SubSeq(l, 1, Len(l) - 2)
           [] f = "timeout"       -> <<>>
           [] f = "stray CR"      -> <<CR>> \o l
           [] f = "marker"        -> <<Ch("#")>> \o Tail(l)
           [] f = "address"       -> <<l[1], Ch("0"), Ch("2")>> \o SubSeq(l, 4, Len(l))
           [] f = "short"         -> SubSeq(l, 1, 5) \o <<CR, LF>>
           [] OTHER               -> l

Waiting(f) == IF f = "more bytes" THEN 1 ELSE 0

(***************************************************************************)
(* The call stack.  A frame is one running method: its name, the place it  *)
(* has reached, and its arguments and locals.                              *)
(***************************************************************************)
Frame(fn) ==
    [fn |-> fn, pc |-> "start", a |-> 0, v |-> Zero, x |-> Zero, y |-> Zero,
     relative |-> FALSE, block |-> FALSE, cmd |-> NoCmd, response_type |-> "reply"]

SendFrame(c) == [Frame("_send") EXCEPT !.cmd = c]
AxisFrame(fn, a) == [Frame(fn) EXCEPT !.a = a]
MoveFrame(a, v, relative, block) ==
    [Frame("_move") EXCEPT !.a = a, !.v = v, !.relative = relative, !.block = block]
XYFrame(fn, x, y, relative, block) ==
    [Frame(fn) EXCEPT !.x = x, !.y = y, !.relative = relative, !.block = block]

Top == stk[Len(stk)]
Running == phase \in {"init", "ready"} /\ stk # <<>>
At(fn, pc) == Running /\ Top.fn = fn /\ Top.pc = pc

\* go on in the same method
Goto(pc) ==
    /\ stk' = [stk EXCEPT ![Len(stk)].pc = pc]
    /\ UNCHANGED <<phase, err, ret>>

\* call method f, to come back at pc
Call(pc, f) ==
    /\ stk' = Append([stk EXCEPT ![Len(stk)].pc = pc], f)
    /\ ret' = <<>>
    /\ UNCHANGED <<phase, err>>

\* return value; the outermost return hands control back to the client
Return(value) ==
    /\ stk' = SubSeq(stk, 1, Len(stk) - 1)
    /\ ret' = value
    /\ phase' = IF Len(stk) = 1 THEN "returned" ELSE phase
    /\ err' = err

\* an exception: no method of this class catches one, so it reaches the client
Raise(kind) ==
    /\ stk' = <<>>
    /\ ret' = <<>>
    /\ phase' = "failed"
    /\ err' = kind

Flag(a) == IF a = 0 THEN moving ELSE moving_a[a]
SetFlag(a, b) ==
    IF a = 0 THEN moving' = b /\ moving_a' = moving_a
    ELSE moving' = moving /\ moving_a' = [moving_a EXCEPT ![a] = b]

(***************************************************************************)
(* The wait loops' polls, kept for the claims about them.                  *)
(***************************************************************************)
NoAwait == [on |-> FALSE, a |-> 0, entered |-> FALSE, n |-> 0, busy |-> 0,
            last |-> "none", other |-> FALSE]
IsPoll(c, a) == c.verb = "" /\ c.a = a

\* the stage reports BUSY to at most this many polls of one wait
MaxBusyPolls == 2

(***************************************************************************)
(* Controller._send, lines 73-94.                                          *)
(***************************************************************************)
\* _send writing its command a second time
send_write_twice ==
    /\ At("_send", "start")
    /\ out' = Written(device_address, Top.cmd)
    /\ unread' = unread + 2
    /\ trace' = Append(trace, Sent(Top.cmd))
    /\ await' = IF ~await.on THEN await
                ELSE IF IsPoll(Top.cmd, await.a) THEN [await EXCEPT !.n = @ + 1]
                ELSE [await EXCEPT !.other = TRUE]
    /\ Goto("read")
    /\ UNCHANGED <<cfg, self, in_waiting, line, dev, call, menu>>

send_write ==
    /\ At("_send", "start")
    /\ out' = Written(device_address, Top.cmd)
    /\ unread' = unread + 1
    /\ trace' = Append(trace, Sent(Top.cmd))
    /\ await' = IF ~await.on THEN await
                ELSE IF IsPoll(Top.cmd, await.a) THEN [await EXCEPT !.n = @ + 1]
                ELSE [await EXCEPT !.other = TRUE]
    /\ Goto("read")
    /\ UNCHANGED <<cfg, self, in_waiting, line, dev, call, menu>>

send_read ==
    /\ At("_send", "read")
    /\ \E ans \in Answers(out, dev), f \in Faults :
        LET busy == out.verb = "" /\ DevBusy(dev, out.a)
            r    == Decode(Garble(ans.line, f), Top.response_type, device_address,
                           verbose, Waiting(f))
        IN  /\ await.on /\ busy => await.busy < MaxBusyPolls
            /\ line' = Garble(ans.line, f)
            /\ in_waiting' = Waiting(f)
            /\ dev' = ans.dev
            /\ unread' = unread - 1
            /\ await' = IF await.on /\ IsPoll(out, await.a)
                        THEN [await EXCEPT !.busy = IF busy THEN @ + 1 ELSE @,
                                           !.last = BusyWord(busy)]
                        ELSE await
            /\ trace' = [trace EXCEPT ![Len(trace)].status = StatusOf(Garble(ans.line, f)),
                                      ![Len(trace)].state = StateOf(Garble(ans.line, f))]
            /\ IF r.ok THEN Return(r.payload) ELSE Raise(r.err)
    /\ UNCHANGED <<cfg, self, out, call, menu>>

(***************************************************************************)
(* _get_status (a = 0), _get_status_x, _get_status_y: lines 96-105,        *)
(* 132-141, 184-193.                                                       *)
(***************************************************************************)
get_status_start ==
    /\ At("_get_status", "start")
    /\ Call("status", SendFrame(Cmd("", Top.a, <<>>)))
    /\ UNCHANGED <<cfg, self, port, ghost>>

get_status_ret ==
    /\ At("_get_status", "status")
    /\ IF Len(Split(ret)) < 3
       THEN SetFlag(Top.a, FALSE) /\ Raise("IndexError")
       ELSE SetFlag(Top.a, Split(ret)[3] = Word("BUSY")) /\ Return(ret)
    /\ UNCHANGED <<cfg, device_address, mm, mmps, port, ghost>>

(***************************************************************************)
(* _get_warnings: lines 107-113.                                           *)
(***************************************************************************)
get_warnings_start ==
    /\ At("_get_warnings", "start")
    /\ Call("warnings", SendFrame(Cmd("warnings", 0, <<>>)))
    /\ UNCHANGED <<cfg, self, port, ghost>>

get_warnings_ret ==
    /\ At("_get_warnings", "warnings")
    /\ Return(ret)
    /\ UNCHANGED <<cfg, self, port, ghost>>

(***************************************************************************)
(* _finish_moving (a = 0), _finish_moving_x, _finish_moving_y: lines       *)
(* 115-120, 143-148, 195-200.  while self._moving: self._get_status()      *)
(***************************************************************************)
\* _finish_moving with "if" for "while": one poll, whatever it reports
finish_moving_once ==
    /\ At("_finish_moving", "start") \/ At("_finish_moving", "loop")
    /\ LET aw == IF Top.pc = "start"
                 THEN [NoAwait EXCEPT !.on = TRUE, !.a = Top.a, !.entered = Flag(Top.a)]
                 ELSE await
       IN  IF Flag(Top.a) /\ Top.pc = "start"
           THEN Call("loop", AxisFrame("_get_status", Top.a)) /\ await' = aw
           ELSE Return(<<>>) /\ await' = [aw EXCEPT !.on = FALSE]
    /\ UNCHANGED <<cfg, self, port, call, trace, menu>>

finish_moving_loop ==
    /\ At("_finish_moving", "start") \/ At("_finish_moving", "loop")
    /\ LET aw == IF Top.pc = "start"
                 THEN [NoAwait EXCEPT !.on = TRUE, !.a = Top.a, !.entered = Flag(Top.a)]
                 ELSE await
       IN  IF Flag(Top.a)
           THEN Call("loop", AxisFrame("_get_status", Top.a)) /\ await' = aw
           ELSE Return(<<>>) /\ await' = [aw EXCEPT !.on = FALSE]
    /\ UNCHANGED <<cfg, self, port, call, trace, menu>>

(***************************************************************************)
(* _home: lines 122-130.                                                   *)
(***************************************************************************)
home_start ==
    /\ At("_home", "start")
    /\ Call("sent", SendFrame(Cmd("home", 0, <<>>)))
    /\ UNCHANGED <<cfg, self, port, ghost>>

home_sent ==
    /\ At("_home", "sent")
    /\ IF ret # Words(Txt(<<"0", "OK", "BUSY", "WR", "0">>))
       THEN Raise("AssertionError") /\ moving' = moving
       ELSE Call("done", AxisFrame("_finish_moving", 0)) /\ moving' = TRUE
    /\ UNCHANGED <<cfg, device_address, moving_a, mm, mmps, port, ghost>>

home_done ==
    /\ At("_home", "done")
    /\ Return(<<>>)
    /\ UNCHANGED <<cfg, self, port, ghost>>

(***************************************************************************)
(* The numbers of the source.                                              *)
(***************************************************************************)
F1e6 == FromInt(1000000)                                      \* 1e6
F1em6 == FromHex(<<0, 12, 6, 15, 7, 10, 0, 11, 5, 14, 13, 8, 13>>, -20)   \* 1e-6
F1p6384 == FromHex(<<10, 3, 6, 14, 2, 14, 11, 1, 12, 4, 3, 2, 13>>, 0)    \* 1.6384
F0p01 == FromHex(<<4, 7, 10, 14, 1, 4, 7, 10, 14, 1, 4, 7, 11>>, -7)      \* 0.01
F750 == FromInt(750)
F130 == FromInt(130)
F100 == FromInt(100)

\* the limit check with its lower bound left out
InLimitsUpperOnly(a, t) == FLe(t, max_mm[a])

\* lines 157, 209: self.x_min_mm <= x_mm <= self.x_max_mm
InLimits(a, t) == FLe(min_mm[a], t) /\ FLe(t, max_mm[a])

\* lines 156, 208: if relative: x_mm = self.x_mm + x_mm
Target(cached, v, relative) == IF relative THEN FAdd(cached, v) ELSE v

\* lines 161, 213: 1e6 * x_mm, to nm
ToNm(t) == FMul(F1e6, t)

\* lines 179, 231, 240: 1e-6 * float(p), from nm
FromNm(p) == FMul(F1em6, p)

\* line 278: 1e6 * 1.6384 * x_mmps
ToSpeedUnits(s) == FMul(FMul(F1e6, F1p6384), s)

\* line 264: round(1e-6 * float(s) / 1.6384, 3)
FromSpeedUnits(s) == FRound3(FDiv(FMul(F1em6, s), F1p6384))

\* the floats of the words toks, or <<>> when float() raises ValueError on one
Floats(toks) ==
    IF \A i \in 1..Len(toks) : IsNumber(toks[i])
    THEN [i \in 1..Len(toks) |-> toks[i][1].n[1]]
    ELSE <<>>

(***************************************************************************)
(* _move_x, _move_y: lines 150-166, 202-218.                               *)
(***************************************************************************)
\* _move_x without lines 151-152, the wait for the move before
move_start_no_wait ==
    /\ At("_move", "start")
    /\ Goto("check")
    /\ UNCHANGED <<cfg, self, port, ghost>>

move_start ==
    /\ At("_move", "start")
    /\ IF moving_a[Top.a]
       THEN Call("check", AxisFrame("_finish_moving", Top.a))
       ELSE Goto("check")
    /\ UNCHANGED <<cfg, self, port, ghost>>

\* _move_x caching the target before the limit check
move_check_caching ==
    /\ At("_move", "check")
    /\ LET t == Target(mm[Top.a], Top.v, Top.relative)
       IN  /\ mm' = [mm EXCEPT ![Top.a] = t]
           /\ IF ~InLimits(Top.a, t)
              THEN Return(<<>>)
              ELSE Call("sent", SendFrame(Cmd("move abs", Top.a, <<ToNm(t)>>)))
    /\ UNCHANGED <<cfg, device_address, moving, moving_a, mmps, port, ghost>>

move_check ==
    /\ At("_move", "check")
    /\ LET t == Target(mm[Top.a], Top.v, Top.relative)
       IN  IF ~InLimits(Top.a, t)
           THEN Return(<<>>)
           ELSE Call("sent", SendFrame(Cmd("move abs", Top.a, <<ToNm(t)>>)))
    /\ UNCHANGED <<cfg, self, port, ghost>>

move_sent ==
    /\ At("_move", "sent")
    /\ moving_a' = [moving_a EXCEPT ![Top.a] = TRUE]
    /\ mm' = [mm EXCEPT ![Top.a] = Target(mm[Top.a], Top.v, Top.relative)]
    /\ IF Top.block
       THEN Call("done", AxisFrame("_finish_moving", Top.a))
       ELSE Return(<<>>)
    /\ UNCHANGED <<cfg, device_address, moving, mmps, port, ghost>>

move_done ==
    /\ At("_move", "done")
    /\ Return(<<>>)
    /\ UNCHANGED <<cfg, self, port, ghost>>

(***************************************************************************)
(* _stop_x, _stop_y: lines 168-174, 220-226.                               *)
(***************************************************************************)
stop_start ==
    /\ At("_stop", "start")
    /\ Call("sent", SendFrame(Cmd("stop", Top.a, <<>>)))
    /\ UNCHANGED <<cfg, self, port, ghost>>

\* _stop_x without the assert of line 171 on the acknowledgment
stop_sent_any_reply ==
    /\ At("_stop", "sent")
    /\ Return(<<>>)
    /\ UNCHANGED <<cfg, self, port, ghost>>

\* a stop that marks its axis idle once it is acknowledged
stop_sent_clearing_flag ==
    /\ At("_stop", "sent")
    /\ IF ret \in {Words(Txt(<<Digit(Top.a), "OK", "BUSY", "--", "0">>)),
                   Words(Txt(<<Digit(Top.a), "OK", "BUSY", "NI", "0">>))}
       THEN Return(<<>>) /\ moving_a' = [moving_a EXCEPT ![Top.a] = FALSE]
       ELSE Raise("AssertionError") /\ moving_a' = moving_a
    /\ UNCHANGED <<cfg, device_address, moving, mm, mmps, port, ghost>>

stop_sent ==
    /\ At("_stop", "sent")
    /\ IF ret \in {Words(Txt(<<Digit(Top.a), "OK", "BUSY", "--", "0">>)),
                   Words(Txt(<<Digit(Top.a), "OK", "BUSY", "NI", "0">>))}
       THEN Return(<<>>)
       ELSE Raise("AssertionError")
    /\ UNCHANGED <<cfg, self, port, ghost>>

(***************************************************************************)
(* _get_position_x, _get_position_y: lines 176-182, 228-234.               *)
(***************************************************************************)
get_position_start ==
    /\ At("_get_position", "start")
    /\ Call("pos", SendFrame(Cmd("get pos", Top.a, <<>>)))
    /\ UNCHANGED <<cfg, self, port, ghost>>

get_position_ret ==
    /\ At("_get_position", "pos")
    /\ LET toks == Split(ret)
       IN  IF Len(toks) < 5 THEN Raise("IndexError") /\ mm' = mm
           ELSE IF ~IsNumber(toks[5]) THEN Raise("ValueError") /\ mm' = mm
           ELSE /\ mm' = [mm EXCEPT ![Top.a] = FromNm(toks[5][1].n[1])]
                /\ Return(<<mm'[Top.a]>>)
    /\ UNCHANGED <<cfg, device_address, moving, moving_a, mmps, port, ghost>>

(***************************************************************************)
(* get_position_mm: lines 236-244.                                         *)
(***************************************************************************)
get_position_mm_start ==
    /\ At("get_position_mm", "start")
    /\ Call("pos", SendFrame(Cmd("get pos", 0, <<>>)))
    /\ UNCHANGED <<cfg, self, port, ghost>>

\* get_position_mm unpacking the two positions the wrong way round
get_position_mm_swapped ==
    /\ At("get_position_mm", "pos")
    /\ LET ps == Floats(Slice(Split(ret), 4, 6))
       IN  IF Len(ps) # 2 THEN Raise("ValueError") /\ mm' = mm
           ELSE mm' = <<FromNm(ps[2]), FromNm(ps[1])>> /\ Return(mm')
    /\ UNCHANGED <<cfg, device_address, moving, moving_a, mmps, port, ghost>>

get_position_mm_ret ==
    /\ At("get_position_mm", "pos")
    /\ LET ps == Floats(Slice(Split(ret), 4, 6))
       IN  IF Len(ps) # 2 THEN Raise("ValueError") /\ mm' = mm
           ELSE mm' = <<FromNm(ps[1]), FromNm(ps[2])>> /\ Return(mm')
    /\ UNCHANGED <<cfg, device_address, moving, moving_a, mmps, port, ghost>>

(***************************************************************************)
(* move_mm: lines 246-258.                                                 *)
(***************************************************************************)
move_mm_start ==
    /\ At("move_mm", "start")
    /\ Call("x_done", MoveFrame(X, Top.x, Top.relative, FALSE))
    /\ UNCHANGED <<cfg, self, port, ghost>>

\* move_mm giving up on Y when X was not moved
move_mm_x_done_giving_up ==
    /\ At("move_mm", "x_done")
    /\ IF moving_a[X]
       THEN Call("y_done", MoveFrame(Y, Top.y, Top.relative, FALSE))
       ELSE Goto("y_done")
    /\ UNCHANGED <<cfg, self, port, ghost>>

move_mm_x_done ==
    /\ At("move_mm", "x_done")
    /\ Call("y_done", MoveFrame(Y, Top.y, Top.relative, FALSE))
    /\ UNCHANGED <<cfg, self, port, ghost>>

\* move_mm with lines 256-257 outside the 'if block'
move_mm_y_done_clearing_flags ==
    /\ At("move_mm", "y_done")
    /\ moving' = TRUE
    /\ IF Top.block
       THEN Call("finish", AxisFrame("_finish_moving", 0)) /\ moving_a' = moving_a
       ELSE Return(<<>>) /\ moving_a' = <<FALSE, FALSE>>
    /\ UNCHANGED <<cfg, device_address, mm, mmps, port, ghost>>

move_mm_y_done ==
    /\ At("move_mm", "y_done")
    /\ moving' = TRUE
    /\ IF Top.block
       THEN Call("finish", AxisFrame("_finish_moving", 0))
       ELSE Return(<<>>)
    /\ UNCHANGED <<cfg, device_address, moving_a, mm, mmps, port, ghost>>

\* move_mm returning from its wait without lines 256-257
move_mm_finish_keeping_flags ==
    /\ At("move_mm", "finish")
    /\ Return(<<>>)
    /\ UNCHANGED <<cfg, self, port, ghost>>

move_mm_finish ==
    /\ At("move_mm", "finish")
    /\ moving_a' = <<FALSE, FALSE>>
    /\ Return(<<>>)
    /\ UNCHANGED <<cfg, device_address, moving, mm, mmps, port, ghost>>

(***************************************************************************)
(* get_maxspeed: lines 260-269.                                            *)
(***************************************************************************)
get_maxspeed_start ==
    /\ At("get_maxspeed", "start")
    /\ Call("speed", SendFrame(Cmd("get maxspeed", 0, <<>>)))
    /\ UNCHANGED <<cfg, self, port, ghost>>

get_maxspeed_ret ==
    /\ At("get_maxspeed", "speed")
    /\ LET ss == Floats(Slice(Split(ret), 4, 6))
       IN  IF Len(ss) # 2 THEN Raise("ValueError") /\ mmps' = mmps
           ELSE /\ mmps' = <<FromSpeedUnits(ss[1]), FromSpeedUnits(ss[2])>>
                /\ Return(mmps')
    /\ UNCHANGED <<cfg, device_address, moving, moving_a, mm, port, ghost>>

(***************************************************************************)
(* set_maxspeed: lines 271-283.                                            *)
(***************************************************************************)
SpeedLegal(s) == FLe(F0p01, s) /\ FLe(s, F750)

\* the speeds sent without the range check of line 277
set_maxspeed_start_unchecked ==
    /\ At("set_maxspeed", "start")
    /\ Call("x_set", SendFrame(Cmd("set maxspeed", X, <<ToSpeedUnits(Top.x)>>)))
    /\ UNCHANGED <<cfg, self, port, ghost>>

set_maxspeed_start ==
    /\ At("set_maxspeed", "start")
    /\ IF SpeedLegal(Top.x) /\ SpeedLegal(Top.y)
       THEN Call("x_set", SendFrame(Cmd("set maxspeed", X, <<ToSpeedUnits(Top.x)>>)))
       ELSE Raise("AssertionError")
    /\ UNCHANGED <<cfg, self, port, ghost>>

set_maxspeed_x_set ==
    /\ At("set_maxspeed", "x_set")
    /\ Call("y_set", SendFrame(Cmd("set maxspeed", Y, <<ToSpeedUnits(Top.y)>>)))
    /\ UNCHANGED <<cfg, self, port, ghost>>

set_maxspeed_y_set ==
    /\ At("set_maxspeed", "y_set")
    /\ Call("verify", Frame("get_maxspeed"))
    /\ UNCHANGED <<cfg, self, port, ghost>>

set_maxspeed_verify ==
    /\ At("set_maxspeed", "verify")
    /\ IF ret = <<Top.x, Top.y>> THEN Return(<<>>) ELSE Raise("AssertionError")
    /\ UNCHANGED <<cfg, self, port, ghost>>

(***************************************************************************)
(* __init__: lines 8-71.                                                   *)
(***************************************************************************)
LimitsLegal ==
    /\ FLe(Zero, min_mm[X]) /\ FLe(min_mm[X], F130)
    /\ FLe(Zero, max_mm[X]) /\ FLe(max_mm[X], F130)
    /\ min_mm[X] # max_mm[X] /\ FLe(min_mm[X], max_mm[X])
    /\ FLe(Zero, min_mm[Y]) /\ FLe(min_mm[Y], F100)
    /\ FLe(Zero, max_mm[Y]) /\ FLe(max_mm[Y], F100)
    /\ min_mm[Y] # max_mm[Y] /\ FLe(min_mm[Y], max_mm[Y])

NeedsHoming == Words(Txt(<<"0", "OK", "IDLE", "WR", "01", "WR">>))
Healthy == {Words(Txt(<<"0", "OK", "IDLE", "--", "00">>)),
            Words(Txt(<<"0", "OK", "IDLE", "NI", "01", "NI">>))}

init_limits ==
    /\ At("__init__", "start")
    /\ IF LimitsLegal THEN Goto("id_write") ELSE Raise("AssertionError")
    /\ UNCHANGED <<cfg, self, port, ghost>>

init_id_write ==
    /\ At("__init__", "id_write")
    /\ out' = Written(<<>>, Cmd("get device.id", 0, <<>>))
    /\ unread' = unread + 1
    /\ trace' = Append(trace, Sent(Cmd("get device.id", 0, <<>>)))
    /\ Goto("id_read")
    /\ UNCHANGED <<cfg, self, in_waiting, line, dev, call, await, menu>>

\* the handshake without the check of the identifier, lines 51-56
init_id_read_any_id ==
    /\ At("__init__", "id_read")
    /\ \E ans \in Answers(out, dev), f \in Faults :
        LET response == Garble(ans.line, f)
        IN  /\ line' = response
            /\ in_waiting' = Waiting(f)
            /\ dev' = ans.dev
            /\ unread' = unread - 1
            /\ IF Len(response) = 0 THEN Raise("no response") /\ UNCHANGED device_address
               ELSE IF Split(response) = <<>>
                    THEN Raise("IndexError") /\ UNCHANGED device_address
               ELSE /\ device_address' = Slice(response, 1, 3)
                    /\ Call("status", AxisFrame("_get_status", 0))
            /\ trace' = [trace EXCEPT ![Len(trace)].status = StatusOf(response),
                                      ![Len(trace)].state = StateOf(response)]
    /\ UNCHANGED <<cfg, moving, moving_a, mm, mmps, out, call, await, menu>>

init_id_read ==
    /\ At("__init__", "id_read")
    /\ \E ans \in Answers(out, dev), f \in Faults :
        LET response == Garble(ans.line, f)
        IN  /\ line' = response
            /\ in_waiting' = Waiting(f)
            /\ dev' = ans.dev
            /\ unread' = unread - 1
            /\ IF Len(response) = 0 THEN Raise("no response") /\ UNCHANGED device_address
               ELSE IF Split(response) = <<>>
                    THEN Raise("IndexError") /\ UNCHANGED device_address
               ELSE IF Split(response)[Len(Split(response))] # Word("50998")
                    THEN Raise("not recognised") /\ UNCHANGED device_address
               ELSE /\ device_address' = Slice(response, 1, 3)
                    /\ Call("status", AxisFrame("_get_status", 0))
            /\ trace' = [trace EXCEPT ![Len(trace)].status = StatusOf(response),
                                      ![Len(trace)].state = StateOf(response)]
    /\ UNCHANGED <<cfg, moving, moving_a, mm, mmps, out, call, await, menu>>

init_status ==
    /\ At("__init__", "status")
    /\ Call("warnings", Frame("_get_warnings"))
    /\ UNCHANGED <<cfg, self, port, ghost>>

\* the stage homed on any warning that is not healthy
init_warnings_home_unless_healthy ==
    /\ At("__init__", "warnings")
    /\ IF ret \notin Healthy
       THEN Call("homed", Frame("_home"))
       ELSE Call("warnings2", Frame("_get_warnings"))
    /\ UNCHANGED <<cfg, self, port, ghost>>

init_warnings ==
    /\ At("__init__", "warnings")
    /\ IF ret = NeedsHoming
       THEN Call("homed", Frame("_home"))
       ELSE Call("warnings2", Frame("_get_warnings"))
    /\ UNCHANGED <<cfg, self, port, ghost>>

init_homed ==
    /\ At("__init__", "homed")
    /\ Call("warnings2", Frame("_get_warnings"))
    /\ UNCHANGED <<cfg, self, port, ghost>>

init_warnings2 ==
    /\ At("__init__", "warnings2")
    /\ IF ret \in Healthy
       THEN Call("status_x", AxisFrame("_get_status", X))
       ELSE Raise("not recognised")
    /\ UNCHANGED <<cfg, self, port, ghost>>

init_status_x ==
    /\ At("__init__", "status_x")
    /\ Call("status_y", AxisFrame("_get_status", Y))
    /\ UNCHANGED <<cfg, self, port, ghost>>

init_status_y ==
    /\ At("__init__", "status_y")
    /\ Call("position", Frame("get_position_mm"))
    /\ UNCHANGED <<cfg, self, port, ghost>>

init_position ==
    /\ At("__init__", "position")
    /\ Call("maxspeed", XYFrame("set_maxspeed", maxspeed_mmps[X], maxspeed_mmps[Y],
                               FALSE, FALSE))
    /\ UNCHANGED <<cfg, self, port, ghost>>

init_maxspeed ==
    /\ At("__init__", "maxspeed")
    /\ Return(<<>>)
    /\ UNCHANGED <<cfg, self, port, ghost>>

(***************************************************************************)
(* The client: one call at a time on a constructed Controller.             *)
(***************************************************************************)
F65 == FromInt(65)
F50 == FromInt(50)
F131 == FromInt(131)
F101 == FromInt(101)
F0p1 == FromHex(<<9, 9, 9, 9, 9, 9, 9, 9, 9, 9, 9, 9, 10>>, -4)    \* 0.1

F751 == FromInt(751)
F0p005 == FromHex(<<4, 7, 10, 14, 1, 4, 7, 10, 14, 1, 4, 7, 11>>, -8)     \* 0.005
F100p0005 == FromHex(<<9, 0, 0, 0, 8, 3, 1, 2, 6, 14, 9, 7, 9>>, 6)       \* 100.0005

\* the (x_mmps, y_mmps) arguments the client sets the speeds with
Speeds == {<<F50, F100>>, <<F100, F50>>, <<F751, F100>>, <<F100, F0p005>>,
           <<F100p0005, F100>>}

SpeedMenu == {XYFrame("set_maxspeed", s[1], s[2], FALSE, FALSE) : s \in Speeds}
    \cup {Frame("get_maxspeed")}

\* the (value, relative) arguments the client moves each axis with
Moves(a) ==
    IF a = X THEN {<<F0p1, FALSE>>, <<F131, FALSE>>, <<F65, TRUE>>}
    ELSE {<<F50, FALSE>>, <<F101, FALSE>>, <<F50, TRUE>>}

\* the calls of a session on one axis
AxisMenu(a) ==
    {MoveFrame(a, m[1], m[2], block) : m \in Moves(a), block \in BOOLEAN}
    \cup {AxisFrame(fn, a) : fn \in {"_stop", "_get_position", "_get_status",
                                     "_finish_moving"}}

\* the calls of a session on both axes: moves that wait, absolute and relative,
\* and position queries; or absolute moves that do not wait, the combined
\* status and the combined wait
XYMoves == {p \in Moves(X) \X Moves(Y) : p[1][2] = p[2][2]}
XYMenu(block) ==
    {XYFrame("move_mm", p[1][1], p[2][1], p[1][2], block) :
        p \in {q \in XYMoves : block \/ ~q[1][2]}}
    \cup (IF block THEN {Frame("get_position_mm")}
          ELSE {AxisFrame("_get_status", 0), AxisFrame("_finish_moving", 0)})

\* calls of both kinds: moves of the pair and of X, waiting or not, a stop,
\* and queries
MixedMenu ==
    {XYFrame("move_mm", F65, F50, FALSE, block) : block \in BOOLEAN}
    \cup {MoveFrame(X, F65, FALSE, block) : block \in BOOLEAN}
    \cup {AxisFrame("_stop", X), AxisFrame("_get_position", X)}
    \cup {AxisFrame("_get_status", a) : a \in {0, X, Y}}

\* a session: the constructor's arguments, the stage's warning flag when the
\* port is opened, and the calls the client then makes
Session(v, xlimits, warn, calls) ==
    [verbose |-> v, x |-> xlimits, y |-> <<Zero, F100>>, warn |-> warn, menu |-> calls,
     maxspeed |-> <<F100, F100>>]

\* a session that configures the speeds speeds and then makes calls
SpeedSession(speeds, calls) ==
    [Session(TRUE, <<Zero, F130>>, "--", calls) EXCEPT !.maxspeed = speeds]

Sessions ==
    {Session(TRUE, <<Zero, F130>>, "--", XYMenu(TRUE)),
     Session(TRUE, <<Zero, F130>>, "WR", XYMenu(FALSE)),
     Session(TRUE, <<Zero, F130>>, "--", AxisMenu(X)),
     Session(FALSE, <<F65, F130>>, "NI", AxisMenu(X)),
     Session(FALSE, <<Zero, F130>>, "--", AxisMenu(Y)),
     Session(TRUE, <<F130, Zero>>, "--", {}),
     Session(FALSE, <<Zero, F130>>, "FQ", {}),
     SpeedSession(<<F100, F100>>, SpeedMenu),
     SpeedSession(<<F751, F100>>, {}),
     SpeedSession(<<F100, F0p005>>, {})}

Snapshot(f) == [fn |-> f.fn, a |-> f.a, v |-> f.v, x |-> f.x, y |-> f.y,
                relative |-> f.relative, block |-> f.block,
                mm |-> mm, moving |-> moving, moving_a |-> moving_a, dev |-> dev,
                mmps |-> mmps]

NoDev == [busy |-> <<FALSE, FALSE>>, pos |-> <<Zero, Zero>>, tgt |-> <<Zero, Zero>>,
          warn |-> "--", speed |-> <<Zero, Zero>>]
NoCall == [Snapshot(Frame("none")) EXCEPT !.mm = <<Zero, Zero>>, !.moving = FALSE,
              !.moving_a = <<FALSE, FALSE>>, !.dev = NoDev,
              !.mmps = <<Zero, Zero>>]

Idle == phase = "ready" /\ stk = <<>>

Invoke(f) ==
    /\ Idle
    /\ stk' = <<f>>
    /\ call' = Snapshot(f)
    /\ trace' = <<>>
    /\ await' = NoAwait
    /\ UNCHANGED <<phase, err, ret, cfg, self, port, menu>>

Offered(fn) == {f \in menu : f.fn = fn}

call_move_mm == \E f \in Offered("move_mm") : Invoke(f)

call_move == \E f \in Offered("_move") : Invoke(f)

call_stop == \E f \in Offered("_stop") : Invoke(f)

call_get_position == \E f \in Offered("_get_position") : Invoke(f)

call_get_position_mm == \E f \in Offered("get_position_mm") : Invoke(f)

call_get_status == \E f \in Offered("_get_status") : Invoke(f)

call_finish_moving == \E f \in Offered("_finish_moving") : Invoke(f)

call_set_maxspeed == \E f \in Offered("set_maxspeed") : Invoke(f)

call_get_maxspeed == \E f \in Offered("get_maxspeed") : Invoke(f)

\* the client takes the result of the call that came back
Ack ==
    /\ phase = "returned"
    /\ phase' = "ready"
    /\ ret' = <<>>
    /\ call' = NoCall
    /\ trace' = <<>>
    /\ await' = NoAwait
    /\ out' = NoneWritten
    /\ line' = <<>>
    /\ UNCHANGED <<err, stk, cfg, self, unread, in_waiting, dev, menu>>

\* a busy axis settles at its target; the controller can see it only in the
\* reply to a command, so the step is taken while a reply is awaited
DeviceSettle ==
    /\ Running /\ unread > 0
    /\ \E a \in Axes :
        /\ dev.busy[a]
        /\ dev' = [dev EXCEPT !.busy[a] = FALSE, !.pos[a] = dev.tgt[a]]
    /\ UNCHANGED <<ctl, cfg, self, out, unread, in_waiting, line, ghost>>

\* the constructor is entered, in one of the sessions of S
Start(S) ==
    /\ phase = "init"
    /\ err = ""
    /\ \E s \in S :
        /\ verbose = s.verbose
        /\ min_mm = <<s.x[1], s.y[1]>>
        /\ max_mm = <<s.x[2], s.y[2]>>
        /\ dev = [NoDev EXCEPT !.warn = s.warn]
        /\ menu = s.menu
        /\ maxspeed_mmps = s.maxspeed
    /\ device_address = <<>>
    /\ moving = FALSE
    /\ moving_a = <<FALSE, FALSE>>
    /\ mm = <<Zero, Zero>>
    /\ mmps = <<Zero, Zero>>
    /\ stk = <<Frame("__init__")>>
    /\ ret = <<>>
    /\ out = NoneWritten
    /\ unread = 0
    /\ in_waiting = 0
    /\ line = <<>>
    /\ call = [NoCall EXCEPT !.fn = "__init__"]
    /\ trace = <<>>
    /\ await = NoAwait

Init == Start(Sessions)

Next ==
    \/ init_limits \/ init_id_write \/ init_id_read \/ init_status \/ init_warnings
    \/ init_homed \/ init_warnings2 \/ init_status_x \/ init_status_y
    \/ init_position \/ init_maxspeed
    \/ send_write \/ send_read
    \/ get_status_start \/ get_status_ret
    \/ get_warnings_start \/ get_warnings_ret
    \/ finish_moving_loop
    \/ home_start \/ home_sent \/ home_done
    \/ move_start \/ move_check \/ move_sent \/ move_done
    \/ stop_start \/ stop_sent
    \/ get_position_start \/ get_position_ret
    \/ get_position_mm_start \/ get_position_mm_ret
    \/ move_mm_start \/ move_mm_x_done \/ move_mm_y_done \/ move_mm_finish
    \/ get_maxspeed_start \/ get_maxspeed_ret
    \/ set_maxspeed_start \/ set_maxspeed_x_set \/ set_maxspeed_y_set
    \/ set_maxspeed_verify
    \/ call_move_mm \/ call_move \/ call_stop \/ call_get_position
    \/ call_get_position_mm \/ call_get_status \/ call_finish_moving
    \/ call_set_maxspeed \/ call_get_maxspeed
    \/ Ack \/ DeviceSettle

Spec == Init /\ [][Next]_vars

(***************************************************************************)
(* The waits, with fairness.  The sessions are the one that homes at       *)
(* startup and then moves both axes without waiting, and the one on the Y  *)
(* axis; the steps are those of Next that these sessions take.  A wait     *)
(* goes on polling for as long as it can (the interpreter runs the loop),  *)
(* and a busy axis settles.                                                *)
(***************************************************************************)
WaitSessions ==
    {Session(TRUE, <<Zero, F130>>, "WR", XYMenu(FALSE)),
     Session(FALSE, <<Zero, F130>>, "--", AxisMenu(Y))}

WaitInit == Start(WaitSessions)

WaitNext ==
    \/ init_limits \/ init_id_write \/ init_id_read \/ init_status \/ init_warnings
    \/ init_homed \/ init_warnings2 \/ init_status_x \/ init_status_y
    \/ init_position \/ init_maxspeed
    \/ send_write \/ send_read
    \/ get_status_start \/ get_status_ret
    \/ get_warnings_start \/ get_warnings_ret
    \/ finish_moving_loop
    \/ home_start \/ home_sent \/ home_done
    \/ move_start \/ move_check \/ move_sent \/ move_done
    \/ stop_start \/ stop_sent
    \/ get_position_start \/ get_position_ret
    \/ get_position_mm_start \/ get_position_mm_ret
    \/ move_mm_start \/ move_mm_x_done \/ move_mm_y_done
    \/ get_maxspeed_start \/ get_maxspeed_ret
    \/ set_maxspeed_start \/ set_maxspeed_x_set \/ set_maxspeed_y_set
    \/ set_maxspeed_verify
    \/ call_move_mm \/ call_move \/ call_stop \/ call_get_position
    \/ call_get_status \/ call_finish_moving
    \/ Ack \/ DeviceSettle

Poll ==
    send_write \/ send_read \/ get_status_start \/ get_status_ret \/ finish_moving_loop

WaitSpec == WaitInit /\ [][WaitNext]_vars /\ WF_vars(Poll) /\ WF_vars(DeviceSettle)

(***************************************************************************)
(* The calls mixed: one session whose client moves the pair and the axes,  *)
(* waiting or not, stops them and queries them, in any order; the steps    *)
(* are those of Next that this session takes.                              *)
(***************************************************************************)
MixedSessions == {Session(FALSE, <<Zero, F130>>, "--", MixedMenu)}

MixedInit == Start(MixedSessions)

MixedNext ==
    \/ init_limits \/ init_id_write \/ init_id_read \/ init_status \/ init_warnings
    \/ init_warnings2 \/ init_status_x \/ init_status_y
    \/ init_position \/ init_maxspeed
    \/ send_write \/ send_read
    \/ get_status_start \/ get_status_ret
    \/ get_warnings_start \/ get_warnings_ret
    \/ finish_moving_loop
    \/ move_start \/ move_check \/ move_sent \/ move_done
    \/ stop_start \/ stop_sent
    \/ get_position_start \/ get_position_ret
    \/ get_position_mm_start \/ get_position_mm_ret
    \/ move_mm_start \/ move_mm_x_done \/ move_mm_y_done \/ move_mm_finish
    \/ get_maxspeed_start \/ get_maxspeed_ret
    \/ set_maxspeed_start \/ set_maxspeed_x_set \/ set_maxspeed_y_set
    \/ set_maxspeed_verify
    \/ call_move_mm \/ call_move \/ call_stop \/ call_get_position
    \/ call_get_status
    \/ Ack \/ DeviceSettle

MixedSpec == MixedInit /\ [][MixedNext]_vars

(***************************************************************************)
(* Words of the claims.                                                    *)
(***************************************************************************)
Returned == phase = "returned"
Failed == phase = "failed"

\* the places in the trace of the call where a move of axis a was written
MoveIndexes(a) == {i \in DOMAIN trace : trace[i].verb = "move abs" /\ trace[i].a = a}

\* t lies within the limits the session was constructed with
Within(a, t) == FLe(min_mm[a], t) /\ FLe(t, max_mm[a])

\* the target of axis a in the client's call: the argument, plus the cached
\* position at the call when relative
Requested(a) ==
    Target(call.mm[a],
           IF call.fn = "_move" THEN call.v ELSE IF a = X THEN call.x ELSE call.y,
           call.relative)

OtherAxis(a) == IF a = X THEN Y ELSE X

\* the last exchange went through _send and _send returned its payload
SendSucceeded ==
    phase # "failed" /\ unread = 0 /\ out.verb \notin {"none", "get device.id"}

\* the reply line has its terminator, the '@' marker and the session's address
WellFramed(l) ==
    /\ EndsWithCRLF(l)
    /\ l[1] = Ch("@")
    /\ Slice(l, 1, 3) = device_address

\* the stage sat idle on both axes at the cached position when the call was made
Synced == \A a \in Axes : ~call.dev.busy[a] /\ call.dev.pos[a] = ToNm(call.mm[a])

\* u and v differ by at most 1e-6 (mm)
Close(u, v) == FLe(FAdd(u, FNeg(v)), F1em6) /\ FLe(FAdd(v, FNeg(u)), F1em6)

\* v is a whole number
IsWhole(v) == LowZero(v.mag, FracLimbs * LimbBits)

(***************************************************************************)
(* C1.  Every 'move abs' command written after construction carries a      *)
(* target within the limits of its axis, in nm: 1e6 * min <= target <=     *)
(* 1e6 * max; no move with an out-of-limit target is ever written.         *)
(***************************************************************************)
C1_MovesWithinLimits ==
    \A i \in DOMAIN trace :
        trace[i].verb = "move abs" =>
            /\ FLe(ToNm(min_mm[trace[i].a]), trace[i].arg[1])
            /\ FLe(trace[i].arg[1], ToNm(max_mm[trace[i].a]))

\* a relative move written in the session with the narrowed X limits
C1_Witness ==
    /\ call.fn = "_move" /\ call.relative /\ min_mm[X] = F65
    /\ MoveIndexes(X) # {}

(***************************************************************************)
(* C2, as claimed.  A _move_x / _move_y call whose target is outside the   *)
(* limits, made with the axis idle or flagged moving, writes no move       *)
(* command and returns with the cached position and the moving flag of the *)
(* axis as they were before the call.                                      *)
(***************************************************************************)
C2_AsClaimed ==
    (Returned /\ call.fn = "_move" /\ ~Within(call.a, Requested(call.a))) =>
        /\ MoveIndexes(call.a) = {}
        /\ mm[call.a] = call.mm[call.a]
        /\ moving_a[call.a] = call.moving_a[call.a]

(***************************************************************************)
(* C2, amended.  A _move_x / _move_y call whose target is outside the      *)
(* limits never writes a move command and never changes the cached         *)
(* position.  Made with the axis idle it writes nothing at all, cannot     *)
(* fail, and leaves the flag false; made with the axis flagged moving it   *)
(* first waits for idle, writing only status polls of that axis, so that   *)
(* when it returns the flag is false.                                      *)
(***************************************************************************)
C2_RejectedMove ==
    (call.fn = "_move" /\ ~Within(call.a, Requested(call.a))) =>
        /\ \A i \in DOMAIN trace : trace[i].verb = "" /\ trace[i].a = call.a
        /\ mm[call.a] = call.mm[call.a]
        /\ ~call.moving_a[call.a] => (trace = <<>> /\ ~Failed /\ ~moving_a[call.a])
        /\ Returned => ~moving_a[call.a]
        /\ (Returned /\ call.moving_a[call.a]) => trace # <<>>

\* an out-of-limit move that was made with the axis flagged moving has returned
C2_Witness ==
    /\ Returned /\ call.fn = "_move" /\ ~Within(call.a, Requested(call.a))
    /\ call.moving_a[call.a]

(***************************************************************************)
(* C3.  In move_mm with exactly one coordinate's target outside its limits *)
(* the out-of-range axis gets no move command and keeps its cached         *)
(* position, and when the call returns the in-range axis has had its one   *)
(* move command written, with its target, and caches that target;          *)
(* whichever of X and Y is the one out of range.                           *)
(***************************************************************************)
C3_IndependentLimits ==
    \A o \in Axes :
        (/\ call.fn = "move_mm"
         /\ ~Within(o, Requested(o))
         /\ Within(OtherAxis(o), Requested(OtherAxis(o)))) =>
            /\ MoveIndexes(o) = {}
            /\ mm[o] = call.mm[o]
            /\ Returned =>
                /\ Cardinality(MoveIndexes(OtherAxis(o))) = 1
                /\ \A i \in MoveIndexes(OtherAxis(o)) :
                        trace[i].arg = <<ToNm(Requested(OtherAxis(o)))>>
                /\ mm[OtherAxis(o)] = Requested(OtherAxis(o))

\* a relative move_mm with X out of range and Y in range has returned
C3_Witness ==
    /\ Returned /\ call.fn = "move_mm" /\ call.relative
    /\ ~Within(X, Requested(X)) /\ Within(Y, Requested(Y))

(***************************************************************************)
(* C4.  When a 'move abs' command of axis A has just been written, A's     *)
(* moving flag is false; and if the flag was true when the move was asked  *)
(* for, a wait on A came first, whose last status poll reported IDLE.      *)
(***************************************************************************)
C4_NoMoveWhileFlagged ==
    (unread = 1 /\ out.verb = "move abs") =>
        /\ ~moving_a[out.a]
        /\ call.moving_a[out.a] =>
            /\ ~await.on /\ await.entered /\ await.a = out.a
            /\ await.n >= 1 /\ await.last = "IDLE"

\* a move is written for an axis that was flagged moving when the call was made
C4_Witness == unread = 1 /\ out.verb = "move abs" /\ call.moving_a[out.a]

(***************************************************************************)
(* C5.  Writes and reads alternate: the number of commands written and not *)
(* yet read back is 0 or 1 in every state, the handshake included.         *)
(***************************************************************************)
C5_WriteThenRead == unread \in {0, 1}

\* a stop has been written and its reply not read yet
C5_Witness == unread = 1 /\ out.verb = "stop" /\ trace[1].verb = "stop"

(***************************************************************************)
(* C6, as claimed.  Whenever _send returned a payload, the reply line it   *)
(* read ended with CR LF, began with the marker and carried the session's  *)
(* address in its second and third characters.                             *)
(***************************************************************************)
C6_AsClaimed == SendSucceeded => WellFramed(line)

\* a reply that begins with a stray CR was taken
C6_Witness == SendSucceeded /\ line # <<>> /\ line[1] = CR /\ ret # <<>>

(***************************************************************************)
(* C7.  Whenever _send returned a payload the port had no bytes waiting;   *)
(* and a read in _send that leaves bytes waiting fails the call, returns   *)
(* nothing, and leaves the cached positions and the flags as they were.    *)
(***************************************************************************)
C7_NoBytesLeft ==
    /\ [](SendSucceeded => in_waiting = 0)
    /\ [][(At("_send", "read") /\ unread' = 0 /\ in_waiting' # 0) =>
            (phase' = "failed" /\ ret' = <<>> /\ UNCHANGED <<mm, moving, moving_a>>)]_vars

\* the reply to a move came with more bytes behind it
C7_Witness == Failed /\ err = "in_waiting" /\ out.verb = "move abs" /\ in_waiting = 1

(***************************************************************************)
(* C8.  A well-framed reply with no bytes left behind it whose status word *)
(* is not OK does not fail the exchange: _send returns the reply without its  *)
(* marker, address and separating space.                                   *)
(***************************************************************************)
C8_RejectionDecodes ==
    (/\ unread = 0 /\ out.verb = "move abs"
     /\ WellFramed(line) /\ in_waiting = 0
     /\ StatusOf(line) \notin {"OK", "none"}) =>
        /\ ~Failed
        /\ At("_move", "sent") => ret = SubSeq(line, 5, Len(line) - 2)

\* a rejected move has come back to _move_x / _move_y
C8_Witness ==
    /\ At("_move", "sent") /\ unread = 0 /\ StatusOf(line) = "RJ"
    /\ WellFramed(line) /\ ret = SubSeq(line, 5, Len(line) - 2)

(***************************************************************************)
(* C9, as claimed.  With the stage idle at the cached position (where the  *)
(* blocking moves before have put it), get_position_mm returns exactly the *)
(* cached position, the last target.                                       *)
(***************************************************************************)
C9_AsClaimed ==
    (Returned /\ call.fn = "get_position_mm" /\ Synced) => ret = call.mm

(***************************************************************************)
(* C9, amended.  A move_mm(block=True) with both targets within the limits *)
(* and accepted by the stage returns with the stage idle at the targets    *)
(* and the targets cached; get_position_mm then returns the target of each *)
(* axis to within 1e-6 mm, exactly when the target is a whole number of    *)
(* mm; and a move_mm with both targets out of limits writes no move        *)
(* command and leaves the cached position as it was.                       *)
(***************************************************************************)
C9_PositionTracked ==
    /\ (/\ Returned /\ call.fn = "move_mm" /\ call.block
        /\ \A a \in Axes : Within(a, Requested(a))
        /\ \A i \in DOMAIN trace : trace[i].status = "OK") =>
            \A a \in Axes :
                /\ mm[a] = Requested(a)
                /\ ~dev.busy[a] /\ dev.pos[a] = ToNm(Requested(a))
    /\ (Returned /\ call.fn = "get_position_mm" /\ Synced) =>
            \A a \in Axes :
                /\ Close(ret[a], call.mm[a])
                /\ IsWhole(call.mm[a]) => ret[a] = call.mm[a]
    /\ (call.fn = "move_mm" /\ \A a \in Axes : ~Within(a, Requested(a))) =>
            /\ \A a \in Axes : MoveIndexes(a) = {}
            /\ mm = call.mm

\* get_position_mm has returned after a blocking move to x = 0.1 mm
C9_Witness ==
    /\ Returned /\ call.fn = "get_position_mm" /\ Synced
    /\ call.mm[X] = F0p1 /\ call.mm[Y] = F50

(***************************************************************************)
(* C10.  A wait (_finish_moving, _finish_moving_x, _finish_moving_y)       *)
(* entered with its flag true writes only status polls of its axis; when   *)
(* it has returned it has written one poll more than were answered BUSY,   *)
(* and the last was answered IDLE; it returns with the flag false; and,    *)
(* the stage settling, every wait ends, by returning or by an exception.   *)
(***************************************************************************)
C10_AwaitIdle ==
    /\ [](await.on => (~await.other /\ await.n \in {await.busy, await.busy + 1}))
    /\ []((~await.on /\ await.entered) =>
            (await.n = await.busy + 1 /\ await.last = "IDLE" /\ ~await.other))
    /\ [][(await.on /\ ~await'.on) =>
            (await'.last = "IDLE"
             /\ (IF await.a = 0 THEN moving' ELSE moving_a'[await.a]) = FALSE)]_vars
    /\ (await.on ~> (~await.on \/ Failed))

\* a wait has returned after a poll answered BUSY and one answered IDLE
C10_Witness ==
    /\ ~await.on /\ await.entered /\ await.busy = MaxBusyPolls
    /\ await.n = MaxBusyPolls + 1 /\ await.a = 0

\* both speeds lie in the range of line 277
SpeedsLegal(s) == SpeedLegal(s[1]) /\ SpeedLegal(s[2])

\* the places in the trace of the call where a speed was written
SetSpeedIndexes == {i \in DOMAIN trace : trace[i].verb = "set maxspeed"}

\* the speed x_mmps as the stage keeps it and get_maxspeed reads it back
Quantized(s) == FromSpeedUnits(DevQuantize(ToSpeedUnits(s)))

(***************************************************************************)
(* C11.  set_maxspeed with a speed outside [0.01, 750] is rejected before  *)
(* any command is written: the call fails at its first step with an        *)
(* AssertionError, writes nothing, and leaves the cached speeds and the    *)
(* stage's speeds as they were.  The same holds for the speeds given to    *)
(* the constructor: no speed is written and construction does not finish.  *)
(***************************************************************************)
C11_RejectedBeforeSending ==
    /\ (call.fn = "set_maxspeed" /\ ~SpeedsLegal(<<call.x, call.y>>)) =>
            /\ trace = <<>>
            /\ mmps = call.mmps
            /\ dev.speed = call.dev.speed
            /\ ~Returned
            /\ (Running => At("set_maxspeed", "start"))
            /\ (Failed => err = "AssertionError")
    /\ (call.fn = "__init__" /\ ~SpeedsLegal(maxspeed_mmps)) =>
            /\ SetSpeedIndexes = {}
            /\ mmps = <<Zero, Zero>>
            /\ dev.speed = <<Zero, Zero>>
            /\ phase \in {"init", "failed"}
            /\ \A i \in DOMAIN stk : stk[i].fn = "set_maxspeed" => stk[i].pc = "start"

\* set_maxspeed(100, 0.005) has failed
C11_Witness ==
    /\ Failed /\ err = "AssertionError"
    /\ call.fn = "set_maxspeed" /\ call.x = F100 /\ call.y = F0p005

\* the constructor has failed on the speed 751 after reading the positions
C11_InitWitness ==
    /\ Failed /\ err = "AssertionError"
    /\ call.fn = "__init__" /\ maxspeed_mmps[X] = F751
    /\ trace # <<>> /\ trace[Len(trace)].verb = "get pos"

(***************************************************************************)
(* C12.  As claimed: set_maxspeed with speeds in range writes the X speed, *)
(* the Y speed and a read-back; when it has returned, the cached speeds    *)
(* are the quantized speeds of the request; and it fails on its            *)
(* verification only when the read-back differs from the quantized speeds  *)
(* of the request.  Line 280 compares the read-back with the speeds as     *)
(* they were passed, so a request the read-back does not reproduce digit   *)
(* for digit fails although the stage did as it was told.                  *)
(***************************************************************************)
C12_AsClaimed ==
    (call.fn = "set_maxspeed" /\ SpeedsLegal(<<call.x, call.y>>)) =>
        /\ Returned =>
            /\ [i \in DOMAIN trace |-> <<trace[i].verb, trace[i].a>>] =
                   <<<<"set maxspeed", X>>, <<"set maxspeed", Y>>, <<"get maxspeed", 0>>>>
            /\ mmps = <<Quantized(call.x), Quantized(call.y)>>
        /\ (Failed /\ err = "AssertionError") =>
            mmps # <<Quantized(call.x), Quantized(call.y)>>

\* set_maxspeed(100.0005, 100) has failed on a read-back of (100.0, 100.0),
\* the speeds the stage was told to keep
C12_Witness ==
    /\ Failed /\ err = "AssertionError"
    /\ call.fn = "set_maxspeed" /\ call.x = F100p0005 /\ call.y = F100
    /\ Len(trace) = 3 /\ \A i \in DOMAIN trace : trace[i].status = "OK"
    /\ dev.speed = <<DevQuantize(ToSpeedUnits(call.x)), DevQuantize(ToSpeedUnits(call.y))>>
    /\ mmps = <<Quantized(call.x), Quantized(call.y)>>
    /\ mmps = <<F100, F100>>

\* the last word of the line l, or <<>> when it has none
LastWord(l) == IF Split(l) = <<>> THEN <<>> ELSE Split(l)[Len(Split(l))]

(***************************************************************************)
(* C13.  The first command the constructor writes is 'get device.id' with  *)
(* no address.  When its reply is empty or does not end in the identifier  *)
(* 50998, construction fails and nothing more is written; otherwise the    *)
(* address is taken from characters 1-2 of that reply.  The address never  *)
(* changes afterwards, and every other command is written with it.         *)
(***************************************************************************)
C13_Handshake ==
    /\ []((call.fn = "__init__" /\ trace # <<>>) => trace[1].verb = "get device.id")
    /\ [](out.verb = "get device.id" => out.addr = <<>>)
    /\ [](out.verb \notin {"none", "get device.id"} =>
            (out.addr = device_address /\ Len(device_address) = 2))
    /\ [][At("__init__", "id_read") =>
            IF line' = <<>> \/ LastWord(line') # Word("50998")
            THEN Failed' /\ device_address' = <<>>
            ELSE ~Failed' /\ device_address' = Slice(line', 1, 3)]_vars
    /\ [][~At("__init__", "id_read") => device_address' = device_address]_vars
    /\ []((Failed /\ device_address = <<>> /\ trace # <<>>) => Len(trace) = 1)

\* the constructor has returned, its last command written with the address
\* the stage gave in the handshake
C13_Witness ==
    /\ Returned /\ call.fn = "__init__"
    /\ device_address = DevAddr /\ out.addr = DevAddr /\ out.verb = "get maxspeed"

\* the constructor has failed on the identifier 30222
C13_RejectWitness ==
    /\ Failed /\ err = "not recognised" /\ LastWord(line) = Word("30222")
    /\ Len(trace) = 1

\* the places in the trace of the call where the command verb was written
VerbIndexes(verb) == {i \in DOMAIN trace : trace[i].verb = verb}

\* the commands i..j of the trace were all answered BUSY
AllBusy(i, j) == \A k \in i..j : trace[k].state = "BUSY"

(***************************************************************************)
(* C14.  In the constructor, 'home' is written exactly when the first      *)
(* warnings query returned '0 OK IDLE WR 01 WR'; it is the command after   *)
(* that query, and it is followed by polls of the combined status only,    *)
(* up to the first one not answered BUSY.  The next command is in either   *)
(* case the second warnings query; when its result is not one of the two   *)
(* healthy ones, construction fails there and nothing more is written;     *)
(* a constructor that has returned has queried the warnings twice.         *)
(***************************************************************************)
C14_HomeThenHealthy ==
    /\ [][At("__init__", "warnings") =>
            /\ (ret = NeedsHoming) <=> (stk'[Len(stk')].fn = "_home")
            /\ (ret # NeedsHoming) <=> (stk'[Len(stk')].fn = "_get_warnings")]_vars
    /\ [][At("_home", "start") => stk'[Len(stk')].cmd.verb = "home"]_vars
    /\ [](call.fn = "__init__" =>
            /\ VerbIndexes("home") \subseteq {4}
            /\ \A i \in 5..Len(trace) :
                 4 \in VerbIndexes("home") =>
                    IF AllBusy(5, i - 1) THEN IsPoll(trace[i], 0)
                    ELSE AllBusy(5, i - 2) => trace[i].verb = "warnings"
            /\ (VerbIndexes("home") = {} /\ Len(trace) >= 4) => trace[4].verb = "warnings")
    /\ [][At("__init__", "warnings2") =>
            IF ret \in Healthy THEN ~Failed' /\ stk' # <<>>
            ELSE Failed' /\ trace' = trace]_vars
    /\ []((Failed /\ err = "not recognised" /\ Len(trace) > 1) =>
            trace[Len(trace)].verb = "warnings")
    /\ []((Returned /\ call.fn = "__init__") =>
            (Cardinality(VerbIndexes("warnings")) = 2 /\ dev.warn \in {"--", "NI"}))

\* the constructor has returned after homing a stage that answered BUSY to
\* the first poll
C14_Witness ==
    /\ Returned /\ call.fn = "__init__"
    /\ VerbIndexes("home") = {4} /\ trace[5].state = "BUSY"
    /\ trace[5 + MaxBusyPolls].state = "IDLE"
    /\ trace[6 + MaxBusyPolls].verb = "warnings"

\* the constructor has failed on the warnings of a stage that stayed in need
\* of homing
C14_UnhealthyWitness ==
    /\ Failed /\ err = "not recognised" /\ call.fn = "__init__"
    /\ VerbIndexes("home") = {4} /\ dev.warn = "WR"

\* what _send makes of the line read, with the verbosity v
Decoded(v) == Decode(line, "reply", device_address, v, in_waiting)

(***************************************************************************)
(* C15.  As claimed: the verbosity has no effect on behaviour, so a call  *)
(* that has returned has read as its last reply a line that _send takes    *)
(* with verbose set as well as with verbose not set.  Line 90 evaluates    *)
(* response.split()[2] only when verbose is set, so a reply of fewer than  *)
(* three words raises IndexError with verbose=True and is taken, its       *)
(* payload returned, with verbose=False; a caller that does not look at    *)
(* the payload then succeeds.                                              *)
(***************************************************************************)
C15_AsClaimed ==
    (Returned /\ out.verb \notin {"none", "get device.id"}) =>
        (Decoded(TRUE).ok /\ Decoded(FALSE).ok)

\* a quiet session's _move_y has returned with the flag set and the target
\* cached, on a reply of two words that a verbose session fails on
C15_Witness ==
    /\ Returned /\ ~verbose /\ call.fn = "_move" /\ call.a = Y
    /\ Len(trace) = 1 /\ trace[1].verb = "move abs" /\ trace[1].status = "none"
    /\ moving_a[Y] /\ mm[Y] # call.mm[Y]
    /\ Decoded(FALSE).ok /\ ~Decoded(TRUE).ok /\ Decoded(TRUE).err = "IndexError"

(***************************************************************************)
(* C16.  As claimed: the moving flag of an axis goes from false to true    *)
(* in a call only when the stage accepted a move of that axis (reply flag  *)
(* OK).  Lines 161-162 (213-214) set the flag after _send has returned,    *)
(* whatever the flag of the reply, so a rejected move leaves it true.      *)
(***************************************************************************)
C16_AsClaimed ==
    \A a \in Axes :
        (call.fn \in {"_move", "move_mm"} /\ ~call.moving_a[a] /\ moving_a[a]) =>
            \E i \in MoveIndexes(a) : trace[i].status = "OK"

\* _move_x has returned with the flag of X set by a move the stage rejected
C16_Witness ==
    /\ Returned /\ call.fn = "_move" /\ call.a = X /\ ~call.block
    /\ ~call.moving_a[X] /\ moving_a[X]
    /\ Len(trace) = 1 /\ trace[1].verb = "move abs" /\ trace[1].status = "RJ"
    /\ ~dev.busy[X] /\ dev = call.dev

\* the places in the trace of the call where the status of a was polled
\* (a = 0: the combined status)
PollIndexes(a) == {i \in DOMAIN trace : IsPoll(trace[i], a)}

\* every place of the set I comes before every place of the set J
Before(I, J) == \A i \in I, j \in J : i < j

(***************************************************************************)
(* C17.  As claimed for block=False: move_mm returns without a status      *)
(* poll written after a move command.                                      *)
(***************************************************************************)
C17_AsClaimed ==
    (Returned /\ call.fn = "move_mm" /\ ~call.block) =>
        \A a \in Axes, b \in {0, X, Y} : Before(PollIndexes(b), MoveIndexes(a))

(***************************************************************************)
(* C17.  move_mm writes at most one move per axis, the move of X before    *)
(* the move of Y, and polls an axis only before its own move, to wait for  *)
(* the move before, and only when its flag was set at the call: polls of   *)
(* Y may follow the move of X.  It then sets the combined flag.  With      *)
(* block=True it polls the combined status, after all moves, and returns   *)
(* with the combined flag and both axis flags false, its last command a    *)
(* combined poll answered IDLE.  With block=False it never polls the       *)
(* combined status, writes nothing after the move of Y, and returns with   *)
(* the combined flag and the flags of the axes it moved true.              *)
(***************************************************************************)
C17_MoveMm ==
    /\ [](call.fn = "move_mm" =>
            /\ \A a \in Axes :
                /\ Cardinality(MoveIndexes(a)) <= 1
                /\ Before(PollIndexes(a), MoveIndexes(a))
                /\ PollIndexes(a) # {} => call.moving_a[a]
                /\ Before(MoveIndexes(a), PollIndexes(0))
            /\ Before(MoveIndexes(X), MoveIndexes(Y))
            /\ Before(PollIndexes(X), PollIndexes(Y))
            /\ PollIndexes(0) # {} => call.block
            /\ (~call.block /\ MoveIndexes(Y) # {}) => MoveIndexes(Y) = {Len(trace)})
    /\ [][At("move_mm", "y_done") =>
            /\ moving'
            /\ Top.block => (stk'[Len(stk')].fn = "_finish_moving" /\ stk'[Len(stk')].a = 0)
            /\ ~Top.block => Returned']_vars
    /\ []((Returned /\ call.fn = "move_mm" /\ call.block) =>
            /\ ~moving /\ moving_a = <<FALSE, FALSE>>
            /\ IsPoll(trace[Len(trace)], 0) /\ trace[Len(trace)].state = "IDLE")
    /\ []((Returned /\ call.fn = "move_mm" /\ ~call.block) =>
            /\ moving
            /\ \A a \in Axes : MoveIndexes(a) # {} => moving_a[a])

\* move_mm(block=False) has returned after moving X and then polling Y, to
\* wait for the move of Y before, without moving Y
C17_Witness ==
    /\ Returned /\ call.fn = "move_mm" /\ ~call.block
    /\ MoveIndexes(X) # {} /\ MoveIndexes(Y) = {} /\ PollIndexes(Y) # {}
    /\ Before(MoveIndexes(X), PollIndexes(Y))
    /\ moving /\ moving_a[X] /\ ~moving_a[Y]

\* move_mm(block=True) has returned after moving both axes and polling
C17_BlockWitness ==
    /\ Returned /\ call.fn = "move_mm" /\ call.block
    /\ MoveIndexes(X) # {} /\ MoveIndexes(Y) # {}
    /\ Cardinality(PollIndexes(0)) = MaxBusyPolls + 1

\* the two acknowledgments of a stop of axis a: '<a> OK BUSY -- 0' and
\* '<a> OK BUSY NI 0'
StopAcks(a) == {Words(Txt(<<Digit(a), "OK", "BUSY", w, "0">>)) : w \in {"--", "NI"}}

(***************************************************************************)
(* C18.  _stop_x / _stop_y writes one command, the stop of its axis, and   *)
(* nothing else; it returns when the payload of the reply is one of the    *)
(* two acknowledgments of a stop of a busy axis, and fails with an         *)
(* AssertionError on every other payload, such as that of an idle axis.    *)
(***************************************************************************)
C18_StopAck ==
    /\ [](call.fn = "_stop" =>
            /\ Len(trace) <= 1
            /\ \A i \in DOMAIN trace : trace[i].verb = "stop" /\ trace[i].a = call.a)
    /\ []((Returned /\ call.fn = "_stop") =>
            /\ Len(trace) = 1
            /\ Decoded(verbose).ok
            /\ Decoded(verbose).payload \in StopAcks(call.a))
    /\ [][At("_stop", "sent") =>
            IF ret \in StopAcks(call.a) THEN Returned'
            ELSE Failed' /\ err' = "AssertionError"]_vars

\* the stop of an idle axis has failed on a well-formed reply
C18_Witness ==
    /\ Failed /\ err = "AssertionError" /\ call.fn = "_stop"
    /\ Len(trace) = 1 /\ trace[1].status = "OK" /\ trace[1].state = "IDLE"
    /\ Decoded(verbose).ok

\* the stop of a busy axis has returned
C18_AckWitness ==
    /\ Returned /\ call.fn = "_stop" /\ call.dev.busy[call.a]
    /\ trace[1].state = "BUSY"

(***************************************************************************)
(* C19.  With moves of the pair and of one axis, waiting or not, stops     *)
(* and status and position queries in any order, and no call failed: a     *)
(* move of an axis is written only while the stage's axis is idle, and     *)
(* between calls the flag of every axis that is busy on the stage is set.  *)
(***************************************************************************)
C19_NoMoveWhileBusy ==
    /\ (At("_send", "start") /\ Top.cmd.verb = "move abs") => ~dev.busy[Top.cmd.a]
    /\ (At("_send", "read") /\ out.verb = "move abs") => ~dev.busy[out.a]
    /\ (Idle \/ Returned) => \A a \in Axes : dev.busy[a] => moving_a[a]

\* the move of X is about to be written in a call made while X was busy from
\* the call before, after polls of X
C19_Witness ==
    /\ At("_send", "start") /\ Top.cmd.verb = "move abs" /\ Top.cmd.a = X
    /\ call.fn = "move_mm" /\ call.dev.busy[X] /\ call.dev.busy[Y] /\ call.moving_a[X]
    /\ PollIndexes(X) # {} /\ ~dev.busy[X] /\ dev.busy[Y]

(***************************************************************************)
(* C20.  _stop_x / _stop_y leaves the cached positions, the flags of the   *)
(* axes and the combined flag as they were at the call.  The cached        *)
(* position of an axis changes only when a move of that axis written by    *)
(* _move_x / _move_y has been answered, and in a position query; the flag  *)
(* of an axis only there, in a status poll of that axis, and at the end    *)
(* of a blocking move_mm.  So after a non-blocking move and a stop the     *)
(* flag is still true and the cached position is still the target.         *)
(***************************************************************************)
C20_StopFrame ==
    /\ [](call.fn = "_stop" =>
            (mm = call.mm /\ moving_a = call.moving_a /\ moving = call.moving))
    /\ [][\A a \in Axes : mm'[a] # mm[a] =>
            \/ At("_move", "sent") /\ Top.a = a /\ MoveIndexes(a) # {}
            \/ At("_get_position", "pos") /\ Top.a = a
            \/ At("get_position_mm", "pos")]_vars
    /\ [][\A a \in Axes : moving_a'[a] # moving_a[a] =>
            \/ At("_move", "sent") /\ Top.a = a /\ MoveIndexes(a) # {}
            \/ At("_get_status", "status") /\ Top.a = a
            \/ At("move_mm", "finish") /\ call.block]_vars

\* the stop of X has returned after a non-blocking move of X to 0.1 mm: the
\* flag is true and the cached position is the target, not where the stage is
C20_Witness ==
    /\ Returned /\ call.fn = "_stop" /\ call.a = X
    /\ moving_a[X] /\ mm[X] = F0p1 /\ dev.tgt[X] # ToNm(F0p1)
    /\ dev.tgt[X] = dev.pos[X]

====
